---- MODULE Spec2Model ----
(***************************************************************************)
(* A model of hadv/ringcache (src/ringcache.go): a fixed-size ring of keys *)
(* with a key -> value map beside it and an optional eviction callback.    *)
(*                                                                         *)
(* Keys and values are small positive integers; Nil (0) stands for Go's    *)
(* nil interface value.  Keys are ordinary comparable values (k == k); the *)
(* callback is modelled by the list of (key, value) pairs it is called     *)
(* with, and it does not re-enter the cache.                               *)
(***************************************************************************)
EXTENDS Integers, Sequences, FiniteSets

\* ---------------------------------------------------------------- bounds
MaxSize == 2
NegSizes == 2
NumKeys == 3
NumVals == 2
MaxCalls == 5
MaxAdds == 2

\* Go's nil interface value, as a key, as a value and as a free ring slot.
Nil == 0

Keys == 1..NumKeys
Vals == 1..NumVals
KeyArgs == Keys \cup {Nil}
ValArgs == Vals \cup {Nil}
SizeArgs == (0 - NegSizes)..MaxSize

VARIABLES
    c,      \* the cache object: [maxSize, next, keys, items, onEvict]
    err,    \* TRUE when the constructor returned (nil, error)
    arg,    \* the maxSize argument the constructor was called with
    pre,    \* the cache object at the start of the last call
    op,     \* the last call: [name, key, value]
    ret,    \* what the last call returned: [val, ok]
    fired,  \* the callback invocations of the last call, in order
    trace,  \* in the scenario specifications: every call made so far
    run     \* in SpecRace: the goroutines inside Add, and the caller's mutex

vars == <<c, err, arg, pre, op, ret, fired, trace, run>>

\* ------------------------------------------------------------ data model

\* keys: make([]interface{}, maxSize), indexed from 0, every slot nil.
EmptyKeys(n) == [i \in 0..(n - 1) |-> Nil]

\* items: make(map[interface{}]interface{}).
EmptyItems == <<>>

\* The nil *RingCache the constructor returns beside an error.
NilCache ==
    [maxSize |-> 0, next |-> 0, keys |-> EmptyKeys(0), items |-> EmptyItems,
     onEvict |-> FALSE]

\* m[k] on a Go map: the value, or nil when k is not a key of m.
Lookup(m, k) == IF k \in DOMAIN m THEN m[k] ELSE Nil

\* _, ok := m[k]
Has(m, k) == k \in DOMAIN m

\* delete(m, k)
Delete(m, k) == [x \in (DOMAIN m) \ {k} |-> m[x]]

\* m[k] = v
Store(m, k, v) == [x \in (DOMAIN m) \cup {k} |-> IF x = k THEN v ELSE m[x]]

\* onEvict is modelled by whether it is non-nil; calling it appends the pair.
Call(onEvict, k, v) == IF onEvict THEN <<(<<k, v>>)>> ELSE <<>>

\* ---------------------------------------------------------- constructors

\* Mutant: the size check lets zero through.
NewWithEvict_ZeroOk(maxSize, onEvict) ==
    IF maxSize < 0
    THEN [c |-> NilCache, err |-> TRUE]
    ELSE [c |-> [maxSize |-> maxSize,
                 next    |-> 0,
                 keys    |-> EmptyKeys(maxSize),
                 items   |-> EmptyItems,
                 onEvict |-> onEvict],
          err |-> FALSE]

NewWithEvict(maxSize, onEvict) ==
    IF maxSize <= 0
    THEN [c |-> NilCache, err |-> TRUE]
    ELSE [c |-> [maxSize |-> maxSize,
                 next    |-> 0,
                 keys    |-> EmptyKeys(maxSize),
                 items   |-> EmptyItems,
                 onEvict |-> onEvict],
          err |-> FALSE]

New(maxSize) == NewWithEvict(maxSize, FALSE)

\* ------------------------------------------------------------- methods
\* Each method is an operator from the receiver (and arguments) to
\* [c |-> the receiver afterwards, val, ok |-> the results,
\*  fired |-> the callback invocations made, in order].

\* Len (the name Len is taken by Sequences).
CacheLen(cache) == Cardinality(DOMAIN cache.items)

Cap(cache) == cache.maxSize

\* Mutant: the loop stops one slot short of the end of the ring.
RECURSIVE PurgeCalls_OneShort(_, _)
PurgeCalls_OneShort(cache, i) ==
    IF i >= cache.maxSize - 1
    THEN <<>>
    ELSE LET k == cache.keys[i]
         IN (IF k # Nil THEN Call(cache.onEvict, k, Lookup(cache.items, k))
                        ELSE <<>>)
            \o PurgeCalls_OneShort(cache, i + 1)

\* The loop of Purge from slot i on: one invocation per non-nil slot.
RECURSIVE PurgeCalls(_, _)
PurgeCalls(cache, i) ==
    IF i >= cache.maxSize
    THEN <<>>
    ELSE LET k == cache.keys[i]
         IN (IF k # Nil THEN Call(cache.onEvict, k, Lookup(cache.items, k))
                        ELSE <<>>)
            \o PurgeCalls(cache, i + 1)

\* Mutant: the cursor is not reset.
Purge_KeepNext(cache) ==
    [c |-> [cache EXCEPT !.items = EmptyItems,
                         !.keys = EmptyKeys(cache.maxSize)],
     val |-> Nil,
     ok |-> TRUE,
     fired |-> PurgeCalls(cache, 0)]

Purge(cache) ==
    [c |-> [cache EXCEPT !.items = EmptyItems,
                         !.keys = EmptyKeys(cache.maxSize),
                         !.next = 0],
     val |-> Nil,
     ok |-> TRUE,
     fired |-> PurgeCalls(cache, 0)]

\* The return value of Add when the slot at the cursor holds a key.
AddEvicted(cache) == cache.onEvict

\* Mutant: the reclaimed key stays in the map.
AddReclaim_Keep(cache, k) == cache.items

\* The map after Add has reclaimed the slot at the cursor.
AddReclaim(cache, k) == IF k # Nil THEN Delete(cache.items, k) ELSE cache.items

\* Mutant: only a nil key is rejected.
AddRejects_KeyOnly(key, value) == key = Nil

\* The guard of Add: do nothing if key or value is nil.
AddRejects(key, value) == key = Nil \/ value = Nil

\* Mutant: the cursor does not move.
AddAdvance_Stay(cache) == cache.next

\* The cursor after an insertion.
AddAdvance(cache) == (cache.next + 1) % cache.maxSize

\* Mutant: the callback is invoked after the reclaimed key has been deleted.
Add_CallAfterDelete(cache, key, value) ==
    IF AddRejects(key, value)
    THEN [c |-> cache, val |-> Nil, ok |-> FALSE, fired |-> <<>>]
    ELSE LET k == cache.keys[cache.next]
         IN [c |-> [cache EXCEPT
                      !.items = Store(AddReclaim(cache, k), key, value),
                      !.keys = [cache.keys EXCEPT ![cache.next] = key],
                      !.next = AddAdvance(cache)],
             val |-> Nil,
             ok |-> IF k # Nil THEN AddEvicted(cache) ELSE FALSE,
             fired |-> IF k # Nil
                       THEN Call(cache.onEvict, k,
                                 Lookup(AddReclaim(cache, k), k))
                       ELSE <<>>]

Add(cache, key, value) ==
    IF AddRejects(key, value)
    THEN [c |-> cache, val |-> Nil, ok |-> FALSE, fired |-> <<>>]
    ELSE LET k == cache.keys[cache.next]
         IN [c |-> [cache EXCEPT
                      !.items = Store(AddReclaim(cache, k), key, value),
                      !.keys = [cache.keys EXCEPT ![cache.next] = key],
                      !.next = AddAdvance(cache)],
             val |-> Nil,
             ok |-> IF k # Nil THEN AddEvicted(cache) ELSE FALSE,
             fired |-> IF k # Nil
                       THEN Call(cache.onEvict, k, Lookup(cache.items, k))
                       ELSE <<>>]

Get(cache, key) ==
    IF Has(cache.items, key)
    THEN IF cache.items[key] = Nil
         THEN [c |-> cache, val |-> Nil, ok |-> FALSE, fired |-> <<>>]
         ELSE [c |-> cache, val |-> cache.items[key], ok |-> TRUE,
               fired |-> <<>>]
    ELSE [c |-> cache, val |-> Nil, ok |-> FALSE, fired |-> <<>>]

\* The slots of the ring that hold key.
SlotsOf(cache, key) == {i \in DOMAIN cache.keys : cache.keys[i] = key}

\* Mutant: the key is looked for in the ring, not in the map.
Contains_Ring(cache, key) ==
    [c |-> cache, val |-> Nil, ok |-> SlotsOf(cache, key) # {}, fired |-> <<>>]

Contains(cache, key) ==
    [c |-> cache, val |-> Nil, ok |-> Has(cache.items, key), fired |-> <<>>]

\* The slot the loop of Remove stops at: the first one that holds key.
FirstSlot(cache, key) ==
    CHOOSE i \in SlotsOf(cache, key) : \A j \in SlotsOf(cache, key) : i <= j

\* Mutant: the loop does not break, so every slot holding key is reported.
RemoveCalls_EverySlot(cache, key) ==
    IF cache.onEvict
    THEN [i \in 1..Cardinality(SlotsOf(cache, key)) |-> <<key, cache.items[key]>>]
    ELSE <<>>

\* The callback invocations of a Remove that found key in the map.
RemoveCalls(cache, key) ==
    IF SlotsOf(cache, key) # {}
    THEN Call(cache.onEvict, key, cache.items[key])
    ELSE <<>>

\* Mutant: the ring is scanned whether or not the map holds key.
Remove_ScanFirst(cache, key) ==
    IF SlotsOf(cache, key) # {}
    THEN [c |-> [cache EXCEPT
                   !.items = Delete(cache.items, key),
                   !.keys = [cache.keys EXCEPT ![FirstSlot(cache, key)] = Nil]],
          val |-> Nil,
          ok |-> TRUE,
          fired |-> Call(cache.onEvict, key, Lookup(cache.items, key))]
    ELSE [c |-> cache, val |-> Nil, ok |-> FALSE, fired |-> <<>>]

\* Mutant: the cursor moves to the freed slot, to reuse it at once.
Remove_Reuse(cache, key) ==
    IF Has(cache.items, key)
    THEN [c |-> [cache EXCEPT
                   !.items = Delete(cache.items, key),
                   !.keys = IF SlotsOf(cache, key) # {}
                            THEN [cache.keys EXCEPT
                                    ![FirstSlot(cache, key)] = Nil]
                            ELSE cache.keys,
                   !.next = IF SlotsOf(cache, key) # {}
                            THEN FirstSlot(cache, key)
                            ELSE cache.next],
          val |-> Nil,
          ok |-> TRUE,
          fired |-> RemoveCalls(cache, key)]
    ELSE [c |-> cache, val |-> Nil, ok |-> FALSE, fired |-> <<>>]

\* Mutant: the key's ring slot is not cleared.
Remove_KeepSlot(cache, key) ==
    IF Has(cache.items, key)
    THEN [c |-> [cache EXCEPT !.items = Delete(cache.items, key)],
          val |-> Nil,
          ok |-> TRUE,
          fired |-> RemoveCalls(cache, key)]
    ELSE [c |-> cache, val |-> Nil, ok |-> FALSE, fired |-> <<>>]

Remove(cache, key) ==
    IF Has(cache.items, key)
    THEN [c |-> [cache EXCEPT
                   !.items = Delete(cache.items, key),
                   !.keys = IF SlotsOf(cache, key) # {}
                            THEN [cache.keys EXCEPT
                                    ![FirstSlot(cache, key)] = Nil]
                            ELSE cache.keys],
          val |-> Nil,
          ok |-> TRUE,
          fired |-> RemoveCalls(cache, key)]
    ELSE [c |-> cache, val |-> Nil, ok |-> FALSE, fired |-> <<>>]

\* ------------------------------------------------------------- the calls

\* A call of a method on the cache: its effect r, recorded.
Step(name, key, value, r) ==
    /\ ~err
    /\ c' = r.c
    /\ pre' = c
    /\ op' = [name |-> name, key |-> key, value |-> value]
    /\ ret' = [val |-> r.val, ok |-> r.ok]
    /\ fired' = r.fired
    /\ UNCHANGED <<err, arg, run>>

CallAdd(key, value) ==
    Step("Add", key, value, Add(c, key, value)) /\ UNCHANGED trace

CallGet(key) ==
    Step("Get", key, Nil, Get(c, key)) /\ UNCHANGED trace

CallContains(key) ==
    Step("Contains", key, Nil, Contains(c, key)) /\ UNCHANGED trace

CallRemove(key) ==
    Step("Remove", key, Nil, Remove(c, key)) /\ UNCHANGED trace

CallPurge ==
    Step("Purge", Nil, Nil, Purge(c)) /\ UNCHANGED trace

\* The goroutines of SpecRace, and a goroutine that is in no call.
Goroutines == {1, 2}

Idle == [pc |-> "idle", key |-> Nil, value |-> Nil, n |-> 0, k |-> Nil,
         done |-> 0]

\* No goroutine is in a call; sync says whether the callers wrap every call
\* in a mutex, mu is the goroutine holding it (0: none).
NoRun(sync) == [sync |-> sync, mu |-> 0, g |-> [x \in Goroutines |-> Idle]]

\* The state a constructor call leaves.
Constructed(n, r) ==
    /\ c = r.c
    /\ err = r.err
    /\ arg = n
    /\ pre = r.c
    /\ op = [name |-> "New", key |-> Nil, value |-> Nil]
    /\ ret = [val |-> Nil, ok |-> ~r.err]
    /\ fired = <<>>
    /\ trace = <<>>
    /\ run = NoRun(TRUE)

Init ==
    \E n \in SizeArgs :
        \/ Constructed(n, New(n))
        \/ Constructed(n, NewWithEvict(n, TRUE))

Next ==
    \/ \E key \in KeyArgs, value \in ValArgs : CallAdd(key, value)
    \/ \E key \in KeyArgs : CallGet(key)
    \/ \E key \in KeyArgs : CallContains(key)
    \/ \E key \in KeyArgs : CallRemove(key)
    \/ CallPurge

Spec == Init /\ [][Next]_vars

\* ------------------------------------------------ scenario specifications
\* The scenario specifications make the same calls and also keep, in trace,
\* every call made since construction with its results.

Traced(name, key, value, r) ==
    /\ Step(name, key, value, r)
    /\ trace' = Append(trace,
                       [op |-> [name |-> name, key |-> key, value |-> value],
                        ret |-> [val |-> r.val, ok |-> r.ok],
                        fired |-> r.fired,
                        len |-> CacheLen(r.c)])

\* The calls made so far, without their results.
Calls == [i \in 1..Len(trace) |-> trace[i].op]

\* SpecFifo: a fresh cache with a callback, and Adds of pairwise distinct
\* non-nil keys only, one more key than the largest capacity.
FifoKeys == 1..(MaxSize + 1)

Added == {trace[i].op.key : i \in 1..Len(trace)}

FifoAdd(key, value) ==
    /\ key \notin Added
    /\ Traced("Add", key, value, Add(c, key, value))

InitFifo == \E n \in 1..MaxSize : Constructed(n, NewWithEvict(n, TRUE))

NextFifo == \E key \in FifoKeys, value \in Vals : FifoAdd(key, value)

SpecFifo == InitFifo /\ [][NextFifo]_vars

\* SpecExample: the cache of the README's example (size 3, with a callback)
\* and the example's mutating calls, made in any order, at most as many as
\* the example makes.  key1..key4 are 1..4 and value1..value4 are 1..4.
ExampleSize == 3

Example ==
    << [name |-> "Add", key |-> 1, value |-> 1],
       [name |-> "Add", key |-> 2, value |-> 2],
       [name |-> "Add", key |-> 3, value |-> 3],
       [name |-> "Add", key |-> 4, value |-> 4],
       [name |-> "Remove", key |-> 3, value |-> Nil],
       [name |-> "Purge", key |-> Nil, value |-> Nil] >>

ExampleCall(o) ==
    /\ Len(trace) < Len(Example)
    /\ \/ o.name = "Add" /\ Traced("Add", o.key, o.value, Add(c, o.key, o.value))
       \/ o.name = "Remove" /\ Traced("Remove", o.key, Nil, Remove(c, o.key))
       \/ o.name = "Purge" /\ Traced("Purge", Nil, Nil, Purge(c))

InitExample == Constructed(ExampleSize, NewWithEvict(ExampleSize, TRUE))

NextExample == \E i \in 1..Len(Example) : ExampleCall(Example[i])

SpecExample == InitExample /\ [][NextExample]_vars

\* SpecHist: a cache with a callback and at most MaxCalls calls of Add (of
\* non-nil keys and values), Remove and Purge, all kept in trace.
HistAdd(key, value) ==
    /\ Len(trace) < MaxCalls
    /\ Traced("Add", key, value, Add(c, key, value))

HistRemove(key) ==
    /\ Len(trace) < MaxCalls
    /\ Traced("Remove", key, Nil, Remove(c, key))

HistPurge ==
    /\ Len(trace) < MaxCalls
    /\ Traced("Purge", Nil, Nil, Purge(c))

InitHist == \E n \in 1..MaxSize : Constructed(n, NewWithEvict(n, TRUE))

NextHist ==
    \/ \E key \in Keys, value \in Vals : HistAdd(key, value)
    \/ \E key \in Keys : HistRemove(key)
    \/ HistPurge

SpecHist == InitHist /\ [][NextHist]_vars

\* SpecNoDup: as SpecHist, but Add is never called with a key that a ring
\* slot holds.  Each key is added with one value, the key's own number (as
\* the README's example adds value_i with key_i).
NoDupAdd(key) ==
    /\ SlotsOf(c, key) = {}
    /\ HistAdd(key, key)

NextNoDup ==
    \/ \E key \in Keys : NoDupAdd(key)
    \/ \E key \in Keys : HistRemove(key)
    \/ HistPurge

SpecNoDup == InitHist /\ [][NextNoDup]_vars

\* SpecRace: two goroutines call Add on one cache built by New, each with
\* keys of its own, at most MaxAdds times.  A call is a sequence of steps,
\* one per read or write of the cursor, a ring slot or the map, and the
\* steps of the two goroutines interleave.  With run.sync every call is made
\* holding the callers' mutex; without it nothing orders the steps, and a
\* re-read of c.next may see the field or the value the goroutine read
\* before (the accesses race).
Me(g) == run.g[g]

\* Goroutine g moves on with its locals set to rec; the mutex goes to mu.
RaceMove(g, rec, mu) ==
    /\ run' = [run EXCEPT !.g[g] = rec, !.mu = mu]
    /\ UNCHANGED <<err, arg, pre, op, ret, fired, trace>>

\* The key of goroutine g's next Add: no two Adds are given the same key.
RaceKey(g) == Cardinality(Goroutines) * Me(g).done + g

\* What a re-read of c.next may give goroutine g.
RaceNext(g) == {c.next, Me(g).n}

\* The callers' wrapper: take the mutex before the call.
RaceLock(g) ==
    /\ run.sync /\ Me(g).pc = "idle" /\ run.mu = 0
    /\ Me(g).done < MaxAdds
    /\ RaceMove(g, [Me(g) EXCEPT !.pc = "locked"], g)
    /\ UNCHANGED c

\* Add is entered with a key and a value that are not nil.
RaceCall(g) ==
    /\ Me(g).pc = IF run.sync THEN "locked" ELSE "idle"
    /\ Me(g).done < MaxAdds
    /\ ~AddRejects(RaceKey(g), RaceKey(g))
    /\ RaceMove(g, [Me(g) EXCEPT !.pc = "readNext", !.key = RaceKey(g),
                                 !.value = RaceKey(g)], run.mu)
    /\ UNCHANGED c

\* k := c.keys[c.next], the read of c.next.
RaceReadNext(g) ==
    /\ Me(g).pc = "readNext"
    /\ RaceMove(g, [Me(g) EXCEPT !.pc = "readSlot", !.n = c.next], run.mu)
    /\ UNCHANGED c

\* k := c.keys[c.next], the read of the slot.
RaceReadSlot(g) ==
    /\ Me(g).pc = "readSlot"
    /\ RaceMove(g, [Me(g) EXCEPT
                      !.pc = IF c.keys[Me(g).n] # Nil THEN "delete" ELSE "store",
                      !.k = c.keys[Me(g).n]], run.mu)
    /\ UNCHANGED c

\* Mutant: the reclaimed key is not deleted from the map.
RaceDelete_Skip(g) ==
    /\ Me(g).pc = "delete"
    /\ RaceMove(g, [Me(g) EXCEPT !.pc = "store"], run.mu)
    /\ UNCHANGED c

\* delete(c.items, k)
RaceDelete(g) ==
    /\ Me(g).pc = "delete"
    /\ c' = [c EXCEPT !.items = AddReclaim(c, Me(g).k)]
    /\ RaceMove(g, [Me(g) EXCEPT !.pc = "store"], run.mu)

\* c.items[key] = value
RaceStore(g) ==
    /\ Me(g).pc = "store"
    /\ c' = [c EXCEPT !.items = Store(c.items, Me(g).key, Me(g).value)]
    /\ RaceMove(g, [Me(g) EXCEPT !.pc = "indexSlot"], run.mu)

\* c.keys[c.next] = key, the read of c.next.
RaceIndexSlot(g) ==
    /\ Me(g).pc = "indexSlot"
    /\ \E n \in RaceNext(g) :
          RaceMove(g, [Me(g) EXCEPT !.pc = "writeSlot", !.n = n], run.mu)
    /\ UNCHANGED c

\* c.keys[c.next] = key, the write of the slot.
RaceWriteSlot(g) ==
    /\ Me(g).pc = "writeSlot"
    /\ c' = [c EXCEPT !.keys[Me(g).n] = Me(g).key]
    /\ RaceMove(g, [Me(g) EXCEPT !.pc = "readCursor"], run.mu)

\* c.next = (c.next + 1) % c.maxSize, the read of c.next.
RaceReadCursor(g) ==
    /\ Me(g).pc = "readCursor"
    /\ \E n \in RaceNext(g) :
          RaceMove(g, [Me(g) EXCEPT !.pc = "writeCursor", !.n = n], run.mu)
    /\ UNCHANGED c

\* c.next = (c.next + 1) % c.maxSize, the write of c.next.
RaceWriteCursor(g) ==
    /\ Me(g).pc = "writeCursor"
    /\ c' = [c EXCEPT !.next = AddAdvance([c EXCEPT !.next = Me(g).n])]
    /\ RaceMove(g, [Me(g) EXCEPT !.pc = "return"], run.mu)

\* Add returns.
RaceReturn(g) ==
    /\ Me(g).pc = "return"
    /\ RaceMove(g, [Idle EXCEPT !.pc = IF run.sync THEN "unlock" ELSE "idle",
                                !.done = Me(g).done + 1], run.mu)
    /\ UNCHANGED c

\* The callers' wrapper: release the mutex after the call.
RaceUnlock(g) ==
    /\ Me(g).pc = "unlock"
    /\ RaceMove(g, [Me(g) EXCEPT !.pc = "idle"], 0)
    /\ UNCHANGED c

InitRace ==
    \E n \in 1..MaxSize, sync \in BOOLEAN :
        /\ c = New(n).c
        /\ err = New(n).err
        /\ arg = n
        /\ pre = New(n).c
        /\ op = [name |-> "New", key |-> Nil, value |-> Nil]
        /\ ret = [val |-> Nil, ok |-> TRUE]
        /\ fired = <<>>
        /\ trace = <<>>
        /\ run = NoRun(sync)

NextRace ==
    \E g \in Goroutines :
        \/ RaceLock(g)
        \/ RaceCall(g)
        \/ RaceReadNext(g)
        \/ RaceReadSlot(g)
        \/ RaceDelete(g)
        \/ RaceStore(g)
        \/ RaceIndexSlot(g)
        \/ RaceWriteSlot(g)
        \/ RaceReadCursor(g)
        \/ RaceWriteCursor(g)
        \/ RaceReturn(g)
        \/ RaceUnlock(g)

SpecRace == InitRace /\ [][NextRace]_vars

\* ------------------------------------------------------------ properties

\* The last call was an Add that was not rejected.
Inserted == op.name = "Add" /\ op.key # Nil /\ op.value # Nil

\* How many of the invocations in f were made with key k.
TimesFired(f, k) == Cardinality({i \in 1..Len(f) : f[i][1] = k})

\* C1: in every reachable state of a constructed cache Len() <= Cap(), and
\* Cap() is the capacity given to the constructor.
C1_LenWithinCap == ~err => (CacheLen(c) <= Cap(c) /\ Cap(c) = arg)

\* C1 witness: a full cache right after an Add of a key that was resident.
C1_Witness ==
    /\ Inserted
    /\ Has(pre.items, op.key)
    /\ CacheLen(pre) = Cap(pre)
    /\ CacheLen(c) = Cap(c)
    /\ Cap(c) > 1

\* C2: on a fresh cache of capacity C with a callback, Adds of pairwise
\* distinct keys fire no callback during the first C Adds; the (C+1)-th Add
\* fires exactly (k0, v0), after it Get and Contains miss k0 and Get finds
\* each of k1..kC with the value it was added with.
C2_FirstEviction ==
    /\ \A i \in 1..Len(trace) : i <= Cap(c) => trace[i].fired = <<>>
    /\ Len(trace) = Cap(c) + 1 =>
        /\ fired = << <<trace[1].op.key, trace[1].op.value>> >>
        /\ trace[Len(trace)].fired = fired
        /\ ~Get(c, trace[1].op.key).ok
        /\ ~Contains(c, trace[1].op.key).ok
        /\ \A i \in 2..Len(trace) :
              /\ Get(c, trace[i].op.key).ok
              /\ Get(c, trace[i].op.key).val = trace[i].op.value
              /\ Contains(c, trace[i].op.key).ok

\* C2 witness: the largest cache after one Add more than its capacity.
C2_Witness == Cap(c) = MaxSize /\ Len(trace) = Cap(c) + 1 /\ fired # <<>>

\* C3 (as claimed): an Add that is not rejected returns true exactly when
\* the slot at the cursor held a key at the start of the call.
C3_AddReturnsOccupied == Inserted => (ret.ok <=> pre.keys[pre.next] # Nil)

\* C4 (as claimed): an Add that removes a resident key from the map was
\* made on a full cache.
C4_EvictsOnlyWhenFull ==
    (Inserted /\ \E k \in DOMAIN pre.items : ~Has(c.items, k))
        => CacheLen(pre) = Cap(pre)

\* C5: Remove(k) of a resident key returns true, leaves k absent for
\* Contains and Get, lowers Len() by one, keeps every other entry, and
\* invokes the callback (if any) exactly once, with (k, v).
C5_RemoveHit ==
    (op.name = "Remove" /\ Has(pre.items, op.key)) =>
        /\ ret.ok
        /\ ~Contains(c, op.key).ok
        /\ ~Get(c, op.key).ok
        /\ CacheLen(c) = CacheLen(pre) - 1
        /\ \A k \in (DOMAIN pre.items) \ {op.key} :
              Has(c.items, k) /\ c.items[k] = pre.items[k]
        /\ fired = IF pre.onEvict
                   THEN << <<op.key, pre.items[op.key]>> >>
                   ELSE <<>>

\* C5 witness: a Remove, with a callback, of a key that held two slots.
C5_Witness ==
    /\ op.name = "Remove"
    /\ Has(pre.items, op.key)
    /\ pre.onEvict
    /\ Cardinality(SlotsOf(pre, op.key)) = 2

\* C6: after Purge the cache is the one the constructor makes for the same
\* capacity and callback: no entries, every slot empty, cursor 0.
C6_PurgeIsFresh ==
    op.name = "Purge" =>
        /\ c = NewWithEvict(Cap(pre), pre.onEvict).c
        /\ CacheLen(c) = 0
        /\ \A k \in KeyArgs : ~Contains(c, k).ok /\ ~Get(c, k).ok
        /\ \A i \in DOMAIN c.keys : c.keys[i] = Nil
        /\ DOMAIN c.keys = DOMAIN pre.keys
        /\ c.next = 0
        /\ Cap(c) = Cap(pre)

\* C6 witness: a Purge of a cache that held entries, its cursor not at 0.
C6_Witness ==
    /\ op.name = "Purge"
    /\ pre.next # 0
    /\ CacheLen(pre) > 0
    /\ c.next = 0

\* C7 (as claimed): with a callback, Purge invokes it exactly once for each
\* key of the map, with the key's value, and for no other key.
C7_PurgeOncePerKey ==
    (op.name = "Purge" /\ pre.onEvict) =>
        /\ \A k \in Keys :
              TimesFired(fired, k) = IF Has(pre.items, k) THEN 1 ELSE 0
        /\ \A i \in 1..Len(fired) :
              fired[i][2] = Lookup(pre.items, fired[i][1])

\* C8 (as claimed): the example's calls, in the example's order, invoke the
\* callback with (a,1) during the fourth Add, (c,3) during Remove(c), then
\* (b,2) and (d,4) during Purge, and with nothing else; Len() is 3, 3, 2, 0
\* after the third Add, the fourth Add, the Remove and the Purge.
C8_ExampleRun ==
    Calls = Example =>
        /\ [i \in 1..Len(trace) |-> trace[i].fired]
             = << <<>>, <<>>, <<>>, << <<1, 1>> >>, << <<3, 3>> >>,
                  << <<2, 2>>, <<4, 4>> >> >>
        /\ trace[3].len = 3
        /\ trace[4].len = 3
        /\ trace[5].len = 2
        /\ trace[6].len = 0

\* C9: a constructor called with a size <= 0 returns an error and no cache;
\* with a size n > 0 it returns no error and a cache with Cap() = n,
\* Len() = 0, cursor 0 and n empty slots.
C9_Construction ==
    op.name = "New" =>
        /\ arg <= 0 => (err /\ c = NilCache)
        /\ arg > 0 =>
              /\ ~err
              /\ Cap(c) = arg
              /\ CacheLen(c) = 0
              /\ c.next = 0
              /\ DOMAIN c.keys = 0..(arg - 1)
              /\ \A i \in DOMAIN c.keys : c.keys[i] = Nil

\* C9 witness: a constructor call with a negative size, refused.
C9_Witness == op.name = "New" /\ arg < 0 /\ err

\* C10: Add(nil, v) and Add(k, nil) return false, invoke no callback and
\* leave the map, the ring, the cursor, Len() and Cap() as they were.
C10_AddNilIsNoOp ==
    (op.name = "Add" /\ (op.key = Nil \/ op.value = Nil)) =>
        /\ ~ret.ok
        /\ fired = <<>>
        /\ c.items = pre.items
        /\ c.keys = pre.keys
        /\ c.next = pre.next
        /\ CacheLen(c) = CacheLen(pre)
        /\ Cap(c) = Cap(pre)

\* C10 witness: Add(k, nil) on a full cache with a callback, where an Add
\* that was not rejected would have evicted.
C10_Witness ==
    /\ op.name = "Add"
    /\ op.key # Nil
    /\ op.value = Nil
    /\ pre.onEvict
    /\ pre.keys[pre.next] # Nil
    /\ CacheLen(pre) = Cap(pre)

\* The keys held by the non-empty slots of the ring.
RingKeys(cache) == {cache.keys[i] : i \in DOMAIN cache.keys} \ {Nil}

\* The non-empty slots of the ring.
Occupied(cache) == {i \in DOMAIN cache.keys : cache.keys[i] # Nil}

\* C11: Remove(k) of a key that is not in the map returns false, invokes no
\* callback and leaves the map, every ring slot and the cursor as they were.
C11_RemoveMiss ==
    (op.name = "Remove" /\ ~Has(pre.items, op.key)) =>
        /\ ~ret.ok
        /\ fired = <<>>
        /\ c.items = pre.items
        /\ c.keys = pre.keys
        /\ c.next = pre.next

\* C11 witness: with a callback, a Remove of a key that is not in the map
\* while a ring slot still holds it.
C11_Witness ==
    /\ op.name = "Remove"
    /\ op.key # Nil
    /\ ~Has(pre.items, op.key)
    /\ SlotsOf(pre, op.key) # {}
    /\ pre.onEvict

\* C12 (as claimed): the keys of the non-empty slots are the keys of the
\* map, every map key holds exactly one slot, and there are Len() non-empty
\* slots.
C12_RingMatchesMap ==
    ~err =>
        /\ RingKeys(c) = DOMAIN c.items
        /\ \A k \in DOMAIN c.items : Cardinality(SlotsOf(c, k)) = 1
        /\ Cardinality(Occupied(c)) = CacheLen(c)

\* C13: the cursor is in [0, capacity); an Add that is not rejected moves it
\* from n to (n + 1) mod capacity and writes its key into slot n; Get,
\* Contains, Remove and a rejected Add leave it where it is; Remove only
\* empties a slot, and an empty slot receives a key only from an Add made
\* with the cursor on it.
C13_Cursor ==
    ~err =>
        /\ c.next \in 0..(Cap(c) - 1)
        /\ Inserted =>
              /\ c.next = (pre.next + 1) % Cap(pre)
              /\ c.keys[pre.next] = op.key
        /\ (op.name \in {"Get", "Contains", "Remove"} \/ (op.name = "Add" /\ ~Inserted))
              => c.next = pre.next
        /\ op.name = "Remove" =>
              \A i \in DOMAIN c.keys : c.keys[i] \in {pre.keys[i], Nil}
        /\ \A i \in DOMAIN c.keys :
              (pre.keys[i] = Nil /\ c.keys[i] # Nil) => (Inserted /\ i = pre.next)

\* C13 witness: a Remove that freed a slot the cursor is not on.
C13_Witness ==
    /\ op.name = "Remove"
    /\ ret.ok
    /\ c.next = pre.next
    /\ \E i \in DOMAIN c.keys :
          pre.keys[i] # Nil /\ c.keys[i] = Nil /\ i # c.next

\* The callback invocations of the first n calls of the trace, in order.
RECURSIVE FiredUpTo(_)
FiredUpTo(n) == IF n = 0 THEN <<>> ELSE FiredUpTo(n - 1) \o trace[n].fired

\* The (key, value) pair of the i-th call of the trace.
Pair(i) == <<trace[i].op.key, trace[i].op.value>>

\* How many of the trace's Adds have overflowed a cache of capacity n.
Overflow(n) == IF Len(trace) > n THEN Len(trace) - n ELSE 0

\* C14: after n Adds of pairwise distinct keys on a fresh cache of capacity
\* C, the resident keys are the last min(n, C) keys added, Get returns for
\* each the value it was added with, and the callback has been invoked with
\* exactly the first n - C pairs added, in insertion order (none if n <= C).
C14_FifoRefinement ==
    /\ DOMAIN c.items =
          {trace[i].op.key : i \in (Overflow(Cap(c)) + 1)..Len(trace)}
    /\ CacheLen(c) = Len(trace) - Overflow(Cap(c))
    /\ \A i \in (Overflow(Cap(c)) + 1)..Len(trace) :
          /\ Get(c, trace[i].op.key).ok
          /\ Get(c, trace[i].op.key).val = trace[i].op.value
    /\ FiredUpTo(Len(trace)) = [j \in 1..Overflow(Cap(c)) |-> Pair(j)]

\* C14 witness: two Adds more than the capacity, so two evictions in order.
C14_Witness ==
    /\ Len(trace) = Cap(c) + 2
    /\ Len(FiredUpTo(Len(trace))) = 2

\* The last call was one of the calls that can take entries out of the map.
Mutating == op.name \in {"Add", "Remove", "Purge"}

\* The callback was invoked during the last call with k and the value k
\* was mapped to when the call began.
Reported(k) == \E i \in 1..Len(fired) : fired[i] = <<k, pre.items[k]>>

\* C15 (as claimed): with a callback, every key of the map that is no
\* longer mapped to the same entry when an Add, Remove or Purge returns has
\* been reported to the callback during that call with the value it had.
C15_NoEntryLeavesUnreported ==
    (pre.onEvict /\ Mutating) =>
        \A k \in DOMAIN pre.items :
            Lookup(c.items, k) # pre.items[k] => Reported(k)

\* C15 (amended): the same, except for the entry of key k that Add(k, v)
\* overwrites while k is not the key of the slot at the cursor; in
\* particular every key that leaves the map is reported.
C15_LeavingEntriesReported ==
    (pre.onEvict /\ Mutating) =>
        \A k \in DOMAIN pre.items :
            /\ ~Has(c.items, k) => Reported(k)
            /\ (Lookup(c.items, k) # pre.items[k]
                  /\ ~(Inserted /\ op.key = k /\ pre.keys[pre.next] # k))
               => Reported(k)

\* C15 witness: with a callback, an Add that reclaimed the slot of another
\* resident key, which left the map.
C15_Witness ==
    /\ pre.onEvict
    /\ Inserted
    /\ pre.keys[pre.next] # op.key
    /\ Has(pre.items, pre.keys[pre.next])
    /\ ~Has(c.items, pre.keys[pre.next])
    /\ fired # <<>>

\* What Get(k) reports on cache: <<value, found>>.
Found(cache, k) == <<Get(cache, k).val, Get(cache, k).ok>>

NotFound == <<Nil, FALSE>>

\* C16: Get and Contains leave the map, the ring and the cursor as they
\* were and invoke no callback; Get(k) finds k exactly when Contains(k) is
\* true; and what Get(k) returns is the value of the most recent Add(k, v)
\* not since reclaimed, removed or purged: an Add(k, v) makes it v and makes
\* the key of the reclaimed slot not found, a Remove(k) or a Purge makes it
\* not found, and nothing else changes it.
C16_Lookups ==
    ~err =>
        /\ op.name \in {"Get", "Contains"} => (c = pre /\ fired = <<>>)
        /\ \A k \in KeyArgs : Get(c, k).ok <=> Contains(c, k).ok
        /\ op.name = "Get" => (ret.ok <=> Contains(pre, op.key).ok)
        /\ op.name = "Contains" => (ret.ok <=> Get(pre, op.key).ok)
        /\ Inserted =>
              \A k \in KeyArgs :
                  Found(c, k) = IF k = op.key THEN <<op.value, TRUE>>
                                ELSE IF k = pre.keys[pre.next] THEN NotFound
                                ELSE Found(pre, k)
        /\ op.name = "Remove" =>
              \A k \in KeyArgs :
                  Found(c, k) = IF k = op.key THEN NotFound ELSE Found(pre, k)
        /\ op.name = "Purge" => \A k \in KeyArgs : Found(c, k) = NotFound
        /\ (op.name \in {"Get", "Contains"} \/ (op.name = "Add" /\ ~Inserted))
              => \A k \in KeyArgs : Found(c, k) = Found(pre, k)

\* C16 witness: a Contains that misses a key a ring slot still holds.
C16_Witness ==
    /\ op.name = "Contains"
    /\ op.key # Nil
    /\ ~ret.ok
    /\ SlotsOf(c, op.key) # {}
    /\ c = pre

\* C18 (as claimed): every callback invocation of an Add, Remove or Purge
\* passes a key that was in the map when the call began, with the non-nil
\* value it was mapped to.
C18_CallbackGetsResidentEntry ==
    Mutating =>
        \A i \in 1..Len(fired) :
            /\ Has(pre.items, fired[i][1])
            /\ fired[i][2] = Lookup(pre.items, fired[i][1])
            /\ fired[i][2] # Nil

\* The i-th call of the trace was followed by a Remove of its key, a Purge
\* or another Add of its key.
Ended(i) ==
    \E j \in (i + 1)..Len(trace) :
        \/ trace[j].op.name = "Purge"
        \/ trace[j].op.name \in {"Add", "Remove"}
              /\ trace[j].op.key = trace[i].op.key

\* The number of Adds made after the i-th call of the trace.
AddsAfter(i) ==
    Cardinality({j \in (i + 1)..Len(trace) : trace[j].op.name = "Add"})

\* C19 (as claimed): after Add(k, v), Get(k) returns v until Remove(k), a
\* Purge, another Add(k, .) or the C-th later Add; fewer than C later Adds
\* never evict k.
C19_Residency ==
    \A i \in 1..Len(trace) :
        (trace[i].op.name = "Add" /\ ~Ended(i) /\ AddsAfter(i) < Cap(c))
            => Found(c, trace[i].op.key) = <<trace[i].op.value, TRUE>>

\* The place in the trace of the last Add of key k among the first n calls.
InsertedAt(k, n) ==
    CHOOSE i \in 1..n :
        /\ trace[i].op.name = "Add" /\ trace[i].op.key = k
        /\ \A j \in (i + 1)..n :
              ~(trace[j].op.name = "Add" /\ trace[j].op.key = k)

\* The keys the last call took out of the map.
Left == (DOMAIN pre.items) \ (DOMAIN c.items)

\* C20: when Add is never called with a key that a ring slot holds, the
\* non-empty slots hold pairwise distinct keys, these are the keys of the
\* map, and a key an Add evicts is the resident key inserted the earliest.
C20_NoDupInvariant ==
    /\ \A k \in RingKeys(c) : Cardinality(SlotsOf(c, k)) = 1
    /\ RingKeys(c) = DOMAIN c.items
    /\ op.name = "Add" =>
          \A k \in Left : \A r \in DOMAIN pre.items :
              InsertedAt(k, Len(trace) - 1) <= InsertedAt(r, Len(trace) - 1)

\* C20 witness: an Add evicts a key on a cache that has more than one
\* resident key and from which a key was removed earlier.
C20_Witness ==
    /\ op.name = "Add"
    /\ Left # {}
    /\ CacheLen(pre) > 1
    /\ \E j \in 1..Len(trace) : trace[j].op.name = "Remove" /\ trace[j].ret.ok

\* The keys of the map that no ring slot holds.
Orphans(cache) == {k \in DOMAIN cache.items : SlotsOf(cache, k) = {}}

\* No goroutine is inside a call.
Quiet == \A g \in Goroutines : Me(g).pc = "idle"

\* C17: when every call is made under the callers' mutex, at most one
\* goroutine is inside Add at a time, and whenever none is, every key of the
\* map is in a ring slot and Len() <= Cap(); without the mutex (the witness)
\* the interleaved steps of two Adds reach a state that breaks both.
C17_AtomicCallsAreSafe ==
    run.sync =>
        /\ \A g, h \in Goroutines :
              (Me(g).pc \notin {"idle", "locked", "unlock"}
                 /\ Me(h).pc \notin {"idle", "locked", "unlock"}) => g = h
        /\ Quiet => (Orphans(c) = {} /\ CacheLen(c) <= Cap(c))

\* C17 witness: without the mutex, with both goroutines back from their
\* Adds, a map key is in no ring slot and Len() > Cap(), on the largest cache.
C17_Witness ==
    /\ ~run.sync
    /\ Quiet
    /\ Cap(c) = MaxSize
    /\ Orphans(c) # {}
    /\ CacheLen(c) > Cap(c)

====
